---- MODULE Spec2Model ----
(***************************************************************************)
(* Range-check gadget of src/range.rs: RangeChip::configure, RangeChip::new *)
(* decomposition, load_small_range_table, and the test circuit that drives  *)
(* them (TestCircuit::synthesize, MockProver::verify in tests::test_range). *)
(*                                                                          *)
(* Field elements are residues modulo FieldModulus, a prime below 2^30      *)
(* standing for the modulus of the pasta base field.  Machine               *)
(* integers produced by `1 << s` are kept symbolically (a power of two, or  *)
(* its two's-complement negation widened to u64), so that the 32-bit shifts *)
(* of configure keep their width for every BASE.                            *)
(***************************************************************************)
EXTENDS Integers, Sequences, FiniteSets, TLC

VARIABLES BASE, build, pc, config, chip, witness, advice, selector, table, loads, err, result

vars == <<BASE, build, pc, config, chip, witness, advice, selector, table, loads, err, result>>

----------------------------------------------------------------------------
(* Bounds of the model *)

\* limb bit-widths explored by the synthesis specification: 1..MaxBase
MaxBase == 2
\* integers handed to the test circuit range over [0, 2^(LIMB_SIZE*BASE + ExtraBits))
ExtraBits == 1
\* the trace has rows 0..MaxRow (the region of decomposition occupies rows 0 and 1)
MaxRow == 2
\* limb bit-widths explored by the configuration specification: 1..MaxWideBase
MaxWideBase == 21

----------------------------------------------------------------------------
(* Program constants *)

LIMB_SIZE == 4

\* the largest prime below 2^30, standing for the modulus of halo2::pasta::Fp
FieldModulus == 1073741789

\* bytes of the canonical little-endian representation of a field element
ReprBytes == 4

Builds == {"debug", "release"}

Columns == {"a", "b", "c", "d"}

Rows == 0..MaxRow

None == <<>>

Some(x) == <<x>>

Option(S) == {None} \cup {Some(x) : x \in S}

Ok == "Ok"

SynthesisError == "SynthesisError"

----------------------------------------------------------------------------
(* Field arithmetic (halo2::arithmetic::FieldExt) *)

FAdd(x, y) == (x + y) % FieldModulus

FSub(x, y) == (x - y + FieldModulus) % FieldModulus

RECURSIVE FMul(_, _)
FMul(x, y) ==
    IF y = 0 THEN 0
    ELSE LET h == FMul(x, y \div 2)
             dbl == (2 * h) % FieldModulus
         IN  IF y % 2 = 1 THEN (dbl + x) % FieldModulus ELSE dbl

RECURSIVE FPow2(_)
FPow2(k) == IF k = 0 THEN 1 ELSE (2 * FPow2(k - 1)) % FieldModulus

----------------------------------------------------------------------------
(* Machine integers.  The result of `1 << s` is a power of two 2^exp, or,   *)
(* when neg is set, the i32 value -2^exp, which `as u64` turns into         *)
(* 2^64 - 2^exp.  A shift by the type's width or more panics in a debug     *)
(* build and uses the shift amount modulo the width in a release build.     *)

MachInt(e, n) == [panic |-> FALSE, neg |-> n, exp |-> e]

Panicked == [panic |-> TRUE, neg |-> FALSE, exp |-> 0]

\* `1 << s` with the literal typed i32 (lines 190-192: the cast gives no expected type)
Shl1_i32(s, bld) ==
    IF s >= 32
    THEN IF bld = "debug" THEN Panicked ELSE MachInt(s % 32, (s % 32) = 31)
    ELSE MachInt(s, s = 31)

\* `1 << s` with the literal typed u64 (line 147: the range feeds F::from_u64)
Shl1_u64(s, bld) ==
    IF s >= 64
    THEN IF bld = "debug" THEN Panicked ELSE MachInt(s % 64, FALSE)
    ELSE MachInt(s, FALSE)

\* F::from_u64 of a small machine integer
from_u64(e) == e % FieldModulus

\* F::from_u64 of `(1 << s) as u64`
from_u64_shl(m) ==
    IF m.neg THEN FSub(FPow2(64), FPow2(m.exp)) ELSE FPow2(m.exp)

----------------------------------------------------------------------------
(* RangeChip::configure *)

\* variant: the range starts at 1
SmallRangeTableValues_FromOne(n) == [i \in 1..(2 ^ n.exp) |-> from_u64(i)]

\* small_range_table_values: (0..1 << BASE).map(|e| F::from_u64(e)).collect()
SmallRangeTableValues(n) == [i \in 1..(2 ^ n.exp) |-> from_u64(i - 1)]

\* the advice column queried by each of the four registered lookups, in order
LookupColumns(a, b, c, d) == <<a, b, c, c>>

\* variant: the second coefficient shifted by BASE instead of 2 * BASE
GateShifts_SameShift(B, bld) ==
    <<Shl1_i32(B, bld), Shl1_i32(B, bld), Shl1_i32(3 * B, bld)>>

\* the shifts behind the gate's coefficients u1, u2, u3
GateShifts(B, bld) ==
    <<Shl1_i32(B, bld), Shl1_i32(2 * B, bld), Shl1_i32(3 * B, bld)>>

\* None when configure panics, otherwise Some(RangeConfig)
RangeChip_configure(B, bld, limbs) ==
    LET n == Shl1_u64(B, bld)
        a == limbs[1]
        b == limbs[2]
        c == limbs[3]
        d == limbs[4]
        u == GateShifts(B, bld)
    IN  IF n.panic \/ u[1].panic \/ u[2].panic \/ u[3].panic
        THEN None
        ELSE Some([a |-> a, b |-> b, c |-> c, d |-> d,
                   lookups |-> LookupColumns(a, b, c, d),
                   u1 |-> u[1], u2 |-> u[2], u3 |-> u[3],
                   small_range_table_values |-> SmallRangeTableValues(n)])

\* RangeChip::new
RangeChip_new(cfg) == [config |-> cfg]

----------------------------------------------------------------------------
(* State after construction of the test circuit *)

EmptyAdvice == [col \in Columns |-> [r \in Rows |-> None]]

EmptySelector == [r \in Rows |-> FALSE]

InitWith(bases) ==
    /\ BASE \in bases
    /\ build \in Builds
    /\ pc = "start"
    /\ config = None
    /\ chip = None
    /\ witness = None
    /\ advice = EmptyAdvice
    /\ selector = EmptySelector
    /\ table = <<>>
    /\ loads = 0
    /\ err = Ok
    /\ result = None

Init == InitWith(1..MaxBase)

InitConfigure == InitWith(1..MaxWideBase)

\* TestCircuit::configure: four advice columns, then RangeChip::configure
Configure ==
    /\ pc = "start"
    /\ LET cfg == RangeChip_configure(BASE, build, <<"a", "b", "c", "d">>)
       IN  /\ config' = cfg
           /\ pc' = IF cfg = None THEN "panicked" ELSE "configured"
    /\ UNCHANGED <<BASE, build, chip, witness, advice, selector, table, loads, err, result>>

\* RangeChip::new(config.range_config)
New ==
    /\ pc = "configured"
    /\ chip' = Some(RangeChip_new(config[1]))
    /\ pc' = "chip"
    /\ UNCHANGED <<BASE, build, config, witness, advice, selector, table, loads, err, result>>

NextConfigure == Configure \/ New

SpecConfigure == InitConfigure /\ [][NextConfigure]_vars

----------------------------------------------------------------------------
(* The test circuit's decompose closure (TestCircuit::synthesize) *)

\* FieldExt::to_bytes: canonical little-endian bytes
to_bytes(e) == [i \in 1..ReprBytes |-> (e \div (256 ^ (i - 1))) % 256]

RECURSIVE from_bytes_le_from(_, _)
from_bytes_le_from(bytes, i) ==
    IF i > Len(bytes) THEN 0 ELSE bytes[i] + 256 * from_bytes_le_from(bytes, i + 1)

\* BigUint::from_bytes_le
from_bytes_le(bytes) == from_bytes_le_from(bytes, 1)

\* BigUint & BigUint
RECURSIVE BitAnd(_, _)
BitAnd(x, y) ==
    IF x = 0 \/ y = 0 THEN 0
    ELSE (x % 2) * (y % 2) + 2 * BitAnd(x \div 2, y \div 2)

\* BigUint::to_str_radix(10): decimal digits, most significant first
RECURSIVE to_str_radix10(_)
to_str_radix10(u) ==
    IF u < 10 THEN <<u>> ELSE Append(to_str_radix10(u \div 10), u % 10)

\* F::from_str: parse decimal digits into the field
RECURSIVE from_str_acc(_, _, _)
from_str_acc(digits, i, acc) ==
    IF i > Len(digits) THEN acc
    ELSE from_str_acc(digits, i + 1, FAdd(FMul(acc, 10), digits[i]))

from_str(digits) == from_str_acc(digits, 1, 0)

\* `(1 << base) as usize` as a number (the shift is not negative for base < 31)
as_usize(m) == 2 ^ m.exp

\* variant: the mask is n instead of n - 1
RECURSIVE decompose_loop_MaskN(_, _, _, _, _)
decompose_loop_MaskN(e, n, base, i, limbs) ==
    IF i = LIMB_SIZE THEN limbs
    ELSE LET u == BitAnd(n, e)
         IN  decompose_loop_MaskN(e \div (2 ^ base), n, base, i + 1,
                                  Append(limbs, from_str(to_str_radix10(u))))

RECURSIVE decompose_loop(_, _, _, _, _)
decompose_loop(e, n, base, i, limbs) ==
    IF i = LIMB_SIZE THEN limbs
    ELSE LET u == BitAnd(n - 1, e)
         IN  decompose_loop(e \div (2 ^ base), n, base, i + 1,
                            Append(limbs, from_str(to_str_radix10(u))))

\* the closure `decompose`: limbs[k + 1] is the code's limbs[k]
decompose(e, base, bld) ==
    decompose_loop(from_bytes_le(to_bytes(e)), as_usize(Shl1_i32(base, bld)), base, 0, <<>>)

----------------------------------------------------------------------------
(* RangeChip::decomposition and RangeChip::load_small_range_table *)

\* variant: an absent value or limb vector is replaced by zeros
Decomposition_DefaultZero(cfg, adv, sel, value_integer, value_limbs) ==
    LET v == IF value_integer = None THEN 0 ELSE value_integer[1]
        l == IF value_limbs = None THEN <<0, 0, 0, 0>> ELSE value_limbs[1]
    IN  [err |-> Ok,
         advice |-> [adv EXCEPT ![cfg.a][0] = Some(0), ![cfg.b][0] = Some(0),
                                ![cfg.c][0] = Some(0), ![cfg.d][0] = Some(v),
                                ![cfg.a][1] = Some(l[1]), ![cfg.b][1] = Some(l[2]),
                                ![cfg.c][1] = Some(l[3]), ![cfg.d][1] = Some(l[4])],
         selector |-> [sel EXCEPT ![1] = TRUE]]

\* variant: the selector is enabled at offset_integer
Decomposition_SelectorAtInteger(cfg, adv, sel, value_integer, value_limbs) ==
    IF value_integer = None \/ value_limbs = None
    THEN [err |-> SynthesisError, advice |-> adv, selector |-> [sel EXCEPT ![0] = TRUE]]
    ELSE [err |-> Ok,
          advice |-> [adv EXCEPT ![cfg.a][0] = Some(0), ![cfg.b][0] = Some(0),
                                 ![cfg.c][0] = Some(0), ![cfg.d][0] = value_integer,
                                 ![cfg.a][1] = Some(value_limbs[1][1]),
                                 ![cfg.b][1] = Some(value_limbs[1][2]),
                                 ![cfg.c][1] = Some(value_limbs[1][3]),
                                 ![cfg.d][1] = Some(value_limbs[1][4])],
          selector |-> [sel EXCEPT ![0] = TRUE]]

\* Writes stop at the first assignment whose value closure fails.
Decomposition(cfg, adv, sel, value_integer, value_limbs) ==
    LET offset_integer == 0
        offset_limbs == offset_integer + 1
        sel1 == [sel EXCEPT ![offset_limbs] = TRUE]
        adv1 == [adv EXCEPT ![cfg.a][0] = Some(0),
                            ![cfg.b][0] = Some(0),
                            ![cfg.c][0] = Some(0)]
    IN  IF value_integer = None
        THEN [err |-> SynthesisError, advice |-> adv1, selector |-> sel1]
        ELSE LET adv2 == [adv1 EXCEPT ![cfg.d][offset_integer] = value_integer]
             IN  IF value_limbs = None
                 THEN [err |-> SynthesisError, advice |-> adv2, selector |-> sel1]
                 ELSE [err |-> Ok,
                       advice |-> [adv2 EXCEPT ![cfg.a][offset_limbs] = Some(value_limbs[1][1]),
                                                ![cfg.b][offset_limbs] = Some(value_limbs[1][2]),
                                                ![cfg.c][offset_limbs] = Some(value_limbs[1][3]),
                                                ![cfg.d][offset_limbs] = Some(value_limbs[1][4])],
                       selector |-> sel1]

\* variant: the last value is not written
load_small_range_table_SkipLast(cfg) ==
    [row \in 1..(Len(cfg.small_range_table_values) - 1) |-> cfg.small_range_table_values[row]]

\* the table column after assign_table: row index holds the index-th value
load_small_range_table(cfg) ==
    [row \in 1..Len(cfg.small_range_table_values) |-> cfg.small_range_table_values[row]]

----------------------------------------------------------------------------
(* MockProver::verify over the registered gate and lookups *)

CellValue(cell) == IF cell = None THEN 0 ELSE cell[1]

SelectorValue(s) == IF s THEN 1 ELSE 0

\* Rotation::prev, cyclic over the trace
PrevRow(r) == (r + MaxRow) % (MaxRow + 1)

\* variant: the recombination is not compared with the target
GateExpression_NoTarget(cfg, adv, sel, r) ==
    LET a == CellValue(adv[cfg.a][r])
        b == CellValue(adv[cfg.b][r])
        c == CellValue(adv[cfg.c][r])
        d == CellValue(adv[cfg.d][r])
    IN  FMul(SelectorValue(sel[r]),
             FAdd(FAdd(FAdd(a, FMul(b, from_u64_shl(cfg.u1))),
                       FMul(c, from_u64_shl(cfg.u2))),
                  FMul(d, from_u64_shl(cfg.u3))))

\* s_range * (a + b * u1 + c * u2 + d * u3 - d_next)
GateExpression(cfg, adv, sel, r) ==
    LET a == CellValue(adv[cfg.a][r])
        b == CellValue(adv[cfg.b][r])
        c == CellValue(adv[cfg.c][r])
        d_next == CellValue(adv[cfg.d][PrevRow(r)])
        d == CellValue(adv[cfg.d][r])
        u1 == from_u64_shl(cfg.u1)
        u2 == from_u64_shl(cfg.u2)
        u3 == from_u64_shl(cfg.u3)
    IN  FMul(SelectorValue(sel[r]),
             FSub(FAdd(FAdd(FAdd(a, FMul(b, u1)), FMul(c, u2)), FMul(d, u3)), d_next))

GateSatisfied(cfg, adv, sel) == \A r \in Rows : GateExpression(cfg, adv, sel, r) = 0

\* rows of the fixed column that assign_table never wrote read as zero
TableEntries(tbl) == {tbl[i] : i \in DOMAIN tbl} \cup {0}

\* the i-th registered lookup: column * s_range must be a table entry
LookupExpression(cfg, i, adv, sel, r) ==
    FMul(CellValue(adv[cfg.lookups[i]][r]), SelectorValue(sel[r]))

LookupSatisfied(cfg, i, adv, sel, tbl) ==
    \A r \in Rows : LookupExpression(cfg, i, adv, sel, r) \in TableEntries(tbl)

verify(cfg, adv, sel, tbl) ==
    [gate |-> GateSatisfied(cfg, adv, sel),
     lookups |-> [i \in 1..LIMB_SIZE |-> LookupSatisfied(cfg, i, adv, sel, tbl)]]

VerifyOk(res) == res.gate /\ \A i \in 1..LIMB_SIZE : res.lookups[i]

----------------------------------------------------------------------------
(* Witnesses *)

Pow2(k) == 2 ^ k

\* integers the test circuit is run on
IntegerInputs(B) == (0..(Pow2(LIMB_SIZE * B + ExtraBits) - 1)) \cup {FieldModulus - 1}

\* limb0 + limb1 * 2^B + limb2 * 2^(2B) + limb3 * 2^(3B) in the field
Recombine(limbs, B) ==
    FAdd(FAdd(FAdd(limbs[1], FMul(limbs[2], FPow2(B))),
              FMul(limbs[3], FPow2(2 * B))),
         FMul(limbs[4], FPow2(3 * B)))

\* limb values a caller of the chip may pass: in range, at the edge, out of range
LimbInputs(B) == {0, 1, Pow2(B) - 1, Pow2(B), FieldModulus - 1}

LimbVectors(B) == [1..LIMB_SIZE -> LimbInputs(B)]

\* target values tried with a limb vector: the one the gate accepts, and others
ValueInputs(limbs, B) == {Recombine(limbs, B), FAdd(Recombine(limbs, B), 1), 0}

\* arguments (value_integer, value_limbs) a caller may hand to decomposition
CallerWitnesses(B) ==
    UNION {{[value_integer |-> Some(v), value_limbs |-> Some(l)] :
                    v \in ValueInputs(l, B)} : l \in LimbVectors(B)}
    \cup {[value_integer |-> None, value_limbs |-> vl] :
            vl \in Option({<<0, 0, 0, 0>>, <<1, 1, 1, 1>>})}
    \cup {[value_integer |-> Some(v), value_limbs |-> None] : v \in {0, 1, Pow2(B)}}

----------------------------------------------------------------------------
(* Synthesis and verification *)

\* TestCircuit::synthesize on the circuit's own integer
Synthesize ==
    /\ pc = "configured"
    /\ chip' = Some(RangeChip_new(config[1]))
    /\ \E integer \in Option(IntegerInputs(BASE)) :
        IF integer = None
        THEN /\ err' = SynthesisError
             /\ pc' = "aborted"
             /\ UNCHANGED <<witness, advice, selector, table, loads>>
        ELSE LET limbs == decompose(integer[1], BASE, build)
                 r == Decomposition(config[1], advice, selector, Some(integer[1]), Some(limbs))
             IN  /\ witness' = Some([value_integer |-> Some(integer[1]),
                                     value_limbs |-> Some(limbs),
                                     by |-> "synthesize"])
                 /\ advice' = r.advice
                 /\ selector' = r.selector
                 /\ err' = r.err
                 /\ table' = load_small_range_table(config[1])
                 /\ loads' = loads + 1
                 /\ pc' = "synthesized"
    /\ UNCHANGED <<BASE, build, config, result>>

\* RangeChip::decomposition called inside a region with a caller's arguments
DecompositionCall ==
    /\ pc = "chip"
    /\ \E w \in CallerWitnesses(BASE) :
        LET r == Decomposition(chip[1].config, advice, selector, w.value_integer, w.value_limbs)
        IN  /\ witness' = Some([value_integer |-> w.value_integer,
                                value_limbs |-> w.value_limbs,
                                by |-> "caller"])
            /\ advice' = r.advice
            /\ selector' = r.selector
            /\ err' = r.err
            /\ pc' = IF r.err = Ok THEN "assigned" ELSE "aborted"
    /\ UNCHANGED <<BASE, build, config, chip, table, loads, result>>

\* RangeChip::load_small_range_table, after the region as in synthesize
LoadSmallRangeTable ==
    /\ pc = "assigned"
    /\ table' = load_small_range_table(chip[1].config)
    /\ loads' = loads + 1
    /\ pc' = "synthesized"
    /\ UNCHANGED <<BASE, build, config, chip, witness, advice, selector, err, result>>

\* MockProver::verify on the synthesized trace
Verify ==
    /\ pc = "synthesized"
    /\ result' = Some(verify(chip[1].config, advice, selector, table))
    /\ pc' = "verified"
    /\ UNCHANGED <<BASE, build, config, chip, witness, advice, selector, table, loads, err>>

Next ==
    \/ Configure
    \/ New
    \/ Synthesize
    \/ DecompositionCall
    \/ LoadSmallRangeTable
    \/ Verify

Spec == Init /\ [][Next]_vars

----------------------------------------------------------------------------
(* Vocabulary of the properties *)

Cfg == config[1]

W == witness[1]

LimbColumns == <<"a", "b", "c", "d">>

\* the value in column d at the base row, and the limb in each column at the next row
Target == CellValue(advice["d"][0])

Limb(k) == CellValue(advice[LimbColumns[k]][1])

\* the trace has been written and the table loaded
Synthesized == pc \in {"synthesized", "verified"}

\* limbs[k] = floor(v / 2^(B*k)) mod 2^B, as a 1-indexed tuple
CanonicalLimbs(v, B) ==
    [k \in 1..LIMB_SIZE |-> (v \div Pow2(B * (k - 1))) % Pow2(B)]

\* recombination over the integers
RecombineInt(limbs, B) ==
    limbs[1] + limbs[2] * Pow2(B) + limbs[3] * Pow2(2 * B) + limbs[4] * Pow2(3 * B)

FullTable(B) == [i \in 1..Pow2(B) |-> i - 1]

AllConstraintsSatisfied ==
    /\ GateSatisfied(Cfg, advice, selector)
    /\ \A i \in 1..LIMB_SIZE : LookupSatisfied(Cfg, i, advice, selector, table)

----------------------------------------------------------------------------
\* C1: soundness. Whenever the two rows written by decomposition (target in d
\* at row 0, limbs in a, b, c, d at row 1, selector on at row 1) satisfy the
\* gate and all four lookups, every limb is below 2^BASE and the target is
\* below 2^(LIMB_SIZE*BASE).
C1_Soundness ==
    (Synthesized /\ selector[1] /\ AllConstraintsSatisfied)
        => /\ \A k \in 1..LIMB_SIZE : Limb(k) < Pow2(BASE)
           /\ Target < Pow2(LIMB_SIZE * BASE)

\* C2: a limb of value >= 2^BASE in column a, b, c or d of the selector row
\* leaves the lookup registered for that column unsatisfied, whatever the gate
\* evaluates to.
C2_OutOfRangeLimbFailsLookup ==
    (Synthesized /\ selector[1])
        => \A k \in 1..LIMB_SIZE :
              Limb(k) >= Pow2(BASE) => ~LookupSatisfied(Cfg, k, advice, selector, table)

\* the arguments of the last decomposition, when both are present
BothPresent == witness # None /\ W.value_integer # None /\ W.value_limbs # None

WValue == W.value_integer[1]

WLimbs == W.value_limbs[1]

C4_Rejection ==
    (BothPresent /\ WValue >= Pow2(LIMB_SIZE * BASE)
        /\ WLimbs = CanonicalLimbs(WValue, BASE))
        => /\ err = Ok
           /\ pc # "aborted"
           /\ pc = "verified" => (~result[1].gate /\ ~VerifyOk(result[1]))

C4_Witness ==
    /\ pc = "verified" /\ BothPresent
    /\ WValue = Pow2(LIMB_SIZE * BASE)
    /\ WLimbs = <<0, 0, 0, 0>>
    /\ err = Ok
    /\ ~result[1].gate

\* C8: round trip. For every v in [0, 2^(LIMB_SIZE*BASE)) the limbs the
\* decompose closure produces (mask with 2^BASE - 1, shift right by BASE)
\* recombine to v, and each of them is below 2^BASE.
C8_RoundTrip ==
    (BothPresent /\ W.by = "synthesize" /\ WValue < Pow2(LIMB_SIZE * BASE))
        => /\ RecombineInt(WLimbs, BASE) = WValue
           /\ Len(WLimbs) = LIMB_SIZE
           /\ \A k \in 1..LIMB_SIZE : WLimbs[k] >= 0 /\ WLimbs[k] < Pow2(BASE)

C8_Witness ==
    /\ BothPresent /\ W.by = "synthesize"
    /\ BASE = MaxBase
    /\ WValue = Pow2(LIMB_SIZE * BASE) - 2
    /\ WLimbs[1] = Pow2(BASE) - 2
    /\ WLimbs[LIMB_SIZE] = Pow2(BASE) - 1
    /\ RecombineInt(WLimbs, BASE) = WValue

\* the configured values and the loaded column are 0, 1, ..., 2^BASE - 1 in order
C5_Contents ==
    /\ config # None =>
          /\ Len(Cfg.small_range_table_values) = Pow2(BASE)
          /\ \A i \in 0..(Pow2(BASE) - 1) : Cfg.small_range_table_values[i + 1] = i
    /\ table # <<>> =>
          /\ Len(table) = Pow2(BASE)
          /\ \A i \in 0..(Pow2(BASE) - 1) : table[i + 1] = i
    /\ loads > 0 => table # <<>>

\* C5: the table contents built by configure and written by
\* load_small_range_table are exactly 0, 1, ..., 2^BASE - 1, the value at index
\* i being i; they are the same for every witness and no decomposition call
\* changes them.
C5_Table ==
    /\ []C5_Contents
    /\ [][(pc = "chip" /\ pc' # "chip") => (table' = table /\ config' = config)]_vars

C5_Witness ==
    /\ pc = "verified"
    /\ BASE = MaxBase
    /\ BothPresent /\ W.by = "caller" /\ WLimbs[LIMB_SIZE] = FieldModulus - 1
    /\ Len(table) = Pow2(BASE)
    /\ table[Pow2(BASE)] = Pow2(BASE) - 1

\* C6: missing witness. A decomposition whose value or limbs are absent ends
\* with the synthesis error, writes no default in place of the absent data,
\* and synthesis stops there: the table is never loaded and nothing is verified.
C6_MissingWitness ==
    /\ (witness # None /\ (W.value_integer = None \/ W.value_limbs = None))
          => /\ err = SynthesisError
             /\ pc = "aborted"
             /\ W.value_integer = None => advice["d"][0] = None
             /\ \A col \in Columns : advice[col][1] = None
    /\ err = SynthesisError
          => /\ pc = "aborted"
             /\ loads = 0 /\ table = <<>> /\ result = None

C6_Witness ==
    /\ witness # None
    /\ W.value_integer = Some(1)
    /\ W.value_limbs = None
    /\ advice["d"][0] = Some(1)
    /\ err = SynthesisError
    /\ pc = "aborted"

C9_Frame ==
    (BothPresent /\ pc \in {"assigned", "synthesized", "verified"})
        => /\ advice["a"][0] = Some(0)
           /\ advice["b"][0] = Some(0)
           /\ advice["c"][0] = Some(0)
           /\ advice["d"][0] = Some(WValue)
           /\ \A k \in 1..LIMB_SIZE : advice[LimbColumns[k]][1] = Some(WLimbs[k])
           /\ \A r \in Rows : selector[r] <=> (r = 1)
           /\ \A col \in Columns : \A r \in Rows : r > 1 => advice[col][r] = None
           /\ pc = "assigned" => (table = <<>> /\ loads = 0)

C9_Witness ==
    /\ pc = "assigned"
    /\ BothPresent
    /\ WLimbs = <<0, 1, Pow2(BASE), FieldModulus - 1>>
    /\ advice["d"][1] = Some(FieldModulus - 1)
    /\ advice["d"][0] = Some(WValue)
    /\ selector[1]

\* C10: for every BASE, configure completes and the coefficients of b, c and d
\* in the gate are exactly 2^BASE, 2^(2*BASE) and 2^(3*BASE), consistent with
\* the 2^BASE entries of the table.
C10_Coefficients ==
    /\ pc # "panicked"
    /\ config # None =>
          /\ Cfg.u1 = MachInt(BASE, FALSE)
          /\ Cfg.u2 = MachInt(2 * BASE, FALSE)
          /\ Cfg.u3 = MachInt(3 * BASE, FALSE)
          /\ Len(Cfg.small_range_table_values) = Pow2(BASE)

====
